---- MODULE Spec2Model ----
(***************************************************************************)
(* Boundary resolution and elevation raster acquisition of                 *)
(* scripts/download_data.py (DataDownloader, main), and the tile-name     *)
(* parser, the clipper, the reprojector and generate_dem_derivatives of    *)
(* scripts/process_data.py.                                                *)
(*                                                                         *)
(* Coordinates.  A coordinate is deg + fraction.  The planner only takes   *)
(* floor(x), ceil(x) and floor(x - 1e-9), so a fraction matters only by    *)
(* its position relative to 0 and to the epsilon 1e-9.  A coordinate is    *)
(* the integer deg * FracSlots + slot, where slot 0 is "exactly on the     *)
(* whole degree", slot 1 is "above it by less than 1e-9" and every higher  *)
(* slot is a fraction above 1e-9 (slots are ordered as the fractions).     *)
(***************************************************************************)
EXTENDS Integers, Sequences, FiniteSets, TLC

VARIABLES
    pc,            \* position of the run (main / download_srtm_tiles)
    sources,       \* main: sources_list
    skip_wfs,      \* main: --skip-wfs
    ok_wfs,        \* main: ok_wfs
    ok_dpa,        \* main: ok_dpa
    attempts,      \* boundary sources called so far, with what each returned
    boundary_gdf,  \* DataDownloader.boundary_gdf
    bfiles,        \* boundary files of output_dir: name -> content
    boundary,      \* download_srtm_tiles: boundary
    tier,          \* download_srtm_tiles: which fetch loop is running
    codes,         \* download_srtm_tiles: codes / full_codes
    ci,            \* index in codes of the tile being fetched
    mi,            \* index in urls of the next mirror
    reqs,          \* requests made for the current tile: mirror, response, yielded
    hgt_files,     \* download_srtm_tiles: hgt_files
    hgt_disk,      \* <code>.hgt files of output_dir: code -> byte size
    prior_disk,    \* the <code>.hgt files output_dir held when the run began
    tmp_disk,      \* working files of output_dir (<code>.hgt.gz, <code>.zip, mosaic tmp)
    warned,        \* codes whose size anomaly was logged
    outputs,       \* raster files of output_dir (srtm_dem.tif, ...)
    srtm_started,  \* download_srtm_tiles was called
    catalog_asked, \* the satellite catalog was searched
    srtm_ret,      \* return value of download_srtm_tiles
    budget,        \* anomalous payloads the mirrors may still serve in this run
    missing,       \* codes logged as not downloaded after the last mirror
    steps,         \* steps completed by the stage that ran last (assembler, catalog, derivatives)
    rfiles,        \* raster files: path -> raster
    before,        \* the raster files when the call began
    first,         \* the raster files after the first of two calls
    call,          \* arguments of the raster call being made
    place,         \* what the place geocoder has for the region (NoGdf: nothing)
    s2_boundary,   \* download_sentinel2: boundary
    s2_ret,        \* return value of download_sentinel2
    archive,       \* the .shp layers of the DPA archive, in rglob order
    comuna,        \* download_boundaries_dpa_zip: comuna_name
    ranked,        \* download_boundaries_dpa_zip: shp_candidates after the sort
    accepted,      \* codes that earlier runs on output_dir took into their tile set
    run,           \* number of the run on output_dir
    corner,        \* tile_code input: <<lat_sw, lon_sw>>
    tcode,         \* tile_code output
    decoded        \* create_geotiff_from_hgt: <<lat_deg, lon_deg>>

vars == <<pc, sources, skip_wfs, ok_wfs, ok_dpa, attempts, boundary_gdf, bfiles,
          boundary, tier, codes, ci, mi, reqs, hgt_files, hgt_disk, prior_disk,
          tmp_disk, warned, outputs, srtm_started, catalog_asked, srtm_ret, budget,
          missing, steps, rfiles, before, first, call, place, s2_boundary,
          s2_ret, archive, comuna, ranked, accepted, run, corner, tcode, decoded>>

-----------------------------------------------------------------------------
(* Bounds of the model *)

\* sub-degree positions of a coordinate (see the header)
FracSlots == 4
\* bounding boxes of the planner check have corners in -PlanDeg .. PlanDeg degrees
PlanDeg == 1
\* south-west corners of the tile-code check: -(MaxLat+1) .. MaxLat
MaxLat == 89
\* and -(MaxLon+1) .. MaxLon
MaxLon == 179
\* anomalous payloads (corrupt archive, archive without member, undersized
\* grid) the mirrors serve in one call of download_srtm_tiles
MaxAnomalies == 1

-----------------------------------------------------------------------------
(* Arithmetic on coordinates: math.floor, math.ceil, x - 1e-9 *)

Abs(n) == IF n >= 0 THEN n ELSE -n

Floor(x) == x \div FracSlots

Ceil(x) == IF x % FracSlots = 0 THEN x \div FracSlots ELSE (x \div FracSlots) + 1

\* faulty variant: the epsilon forgotten
FloorNoEps(x) == x \div FracSlots

\* math.floor(x - 1e-9): slots 0 and 1 are less than 1e-9 above the degree
FloorMinusEps(x) == IF x % FracSlots <= 1 THEN (x \div FracSlots) - 1 ELSE x \div FracSlots

Deg(d) == d * FracSlots

-----------------------------------------------------------------------------
(* Tile identifiers: a code is the sequence of its characters *)

DigitChars == <<"0", "1", "2", "3", "4", "5", "6", "7", "8", "9">>

Letters == <<"E", "N", "S", "W">>

\* ord(): digits sort before letters, letters alphabetically
Ord(ch) ==
    IF \E d \in 1..10 : DigitChars[d] = ch
    THEN (CHOOSE d \in 1..10 : DigitChars[d] = ch) - 1
    ELSE 10 + (CHOOSE l \in 1..4 : Letters[l] = ch)

RECURSIVE Digits(_)
Digits(n) ==
    IF n < 10 THEN <<DigitChars[n + 1]>>
    ELSE Digits(n \div 10) \o <<DigitChars[(n % 10) + 1]>>

\* format spec 0<w>d: at least w characters, zero-filled on the left
RECURSIVE ZeroPad(_, _)
ZeroPad(s, w) == IF Len(s) >= w THEN s ELSE ZeroPad(<<"0">> \o s, w)

\* faulty variant: the longitude formatted with width 2
tile_code_narrow(lat_sw, lon_sw) ==
    <<IF lat_sw >= 0 THEN "N" ELSE "S">> \o ZeroPad(Digits(Abs(lat_sw)), 2)
      \o <<IF lon_sw >= 0 THEN "E" ELSE "W">> \o ZeroPad(Digits(Abs(lon_sw)), 2)

tile_code(lat_sw, lon_sw) ==
    LET ns == IF lat_sw >= 0 THEN "N" ELSE "S"
        ew == IF lon_sw >= 0 THEN "E" ELSE "W"
    IN  <<ns>> \o ZeroPad(Digits(Abs(lat_sw)), 2) \o <<ew>> \o ZeroPad(Digits(Abs(lon_sw)), 3)

\* name[a:b] of Python
Slice(s, a, b) == SubSeq(s, a + 1, IF b < Len(s) THEN b ELSE Len(s))

IsDigit(ch) == \E d \in 1..10 : DigitChars[d] = ch

\* int(s) of a digit string; -1 stands for the ValueError of int()
RECURSIVE ParseInt(_)
ParseInt(s) ==
    IF s = <<>> \/ \E i \in 1..Len(s) : ~IsDigit(s[i]) THEN -1
    ELSE IF Len(s) = 1 THEN Ord(s[1])
    ELSE ParseInt(SubSeq(s, 1, Len(s) - 1)) * 10 + Ord(s[Len(s)])

\* the name parser of create_geotiff_from_hgt: <<lat_deg, lon_deg>>,
\* or <<>> when it raises
ParseTileName(name) ==
    IF Len(name) < 4 THEN <<>>
    ELSE LET lat_sign == IF name[1] = "S" THEN -1 ELSE 1
             lat_mag  == ParseInt(Slice(name, 1, 3))
             lon_sign == IF name[4] = "W" THEN -1 ELSE 1
             lon_mag  == ParseInt(Slice(name, 4, 7))
         IN  IF lat_mag < 0 \/ lon_mag < 0 THEN <<>>
             ELSE <<lat_mag * lat_sign, lon_mag * lon_sign>>

\* lexicographic order of strings
RECURSIVE CodeLess(_, _)
CodeLess(a, b) ==
    IF a = <<>> THEN b # <<>>
    ELSE IF b = <<>> THEN FALSE
    ELSE IF Ord(a[1]) # Ord(b[1]) THEN Ord(a[1]) < Ord(b[1])
    ELSE CodeLess(Tail(a), Tail(b))

\* faulty variant: the codes in descending order
RECURSIVE SortCodesDescending(_)
SortCodesDescending(S) ==
    IF S = {} THEN <<>>
    ELSE LET m == CHOOSE c \in S : \A d \in S \ {c} : CodeLess(d, c)
         IN  <<m>> \o SortCodesDescending(S \ {m})

\* sorted(S) for a set of codes
RECURSIVE SortCodes(_)
SortCodes(S) ==
    IF S = {} THEN <<>>
    ELSE LET m == CHOOSE c \in S : \A d \in S \ {c} : CodeLess(c, d)
         IN  <<m>> \o SortCodes(S \ {m})

-----------------------------------------------------------------------------
(* Tile grid planner of download_srtm_tiles *)

\* a bounding box is <<minx, miny, maxx, maxy>> (boundary.total_bounds)
MinX(b) == b[1]
MinY(b) == b[2]
MaxX(b) == b[3]
MaxY(b) == b[4]

\* faulty variant: the northern row taken with ceil
CornerLatsCeil(b) == {Floor(MinY(b)), Ceil(MaxY(b))}

CornerLats(b) == {Floor(MinY(b)), FloorMinusEps(MaxY(b))}

\* faulty variant: every column from the western to the eastern one
CornerLonsRange(b) == Floor(MinX(b)) .. FloorMinusEps(MaxX(b))

CornerLons(b) == {Floor(MinX(b)), FloorMinusEps(MaxX(b))}

\* codes = sorted({tile_code(la, lo) for la in lat_sw for lo in lon_sw})
CornerCodes(b) ==
    SortCodes({tile_code(la, lo) : la \in CornerLats(b), lo \in CornerLons(b)})

\* full_lats / full_lons: range(floor(min), ceil(max) + 1)
FullLats(b) == Floor(MinY(b)) .. Ceil(MaxY(b))

FullLons(b) == Floor(MinX(b)) .. Ceil(MaxX(b))

FullCodes(b) ==
    SortCodes({tile_code(la, lo) : la \in FullLats(b), lo \in FullLons(b)})

\* code_force = tile_code(floor(miny), floor(minx))
ForcedCode(b) == tile_code(Floor(MinY(b)), Floor(MinX(b)))

-----------------------------------------------------------------------------
(* Geometries and responses of the external services *)

\* a GeoDataFrame: its rows are bounding boxes; NoGdf is None
NoGdf == [present |-> FALSE, rows |-> <<>>]

Gdf(rows) == [present |-> TRUE, rows |-> rows]

\* what the place geocoder (ox.geocode_to_gdf) has for the region: a box
\* inside the cell S01W001, and one whose north and east edges lie exactly
\* on the whole degree
GeocodeBoxes ==
    { <<Deg(-1) + 2, Deg(-1) + 2, Deg(-1) + 3, Deg(-1) + 3>>,
      <<Deg(-1) + 2, Deg(-1) + 2, Deg(0), Deg(0)>> }

\* the polygon the WFS layer has, and the one the DPA archive has
WfsBox == <<Deg(-1) + 1, Deg(-1) + 2, Deg(-1) + 3, Deg(-1) + 3>>

DpaBox == <<Deg(-1) + 2, Deg(-1) + 1, Deg(-1) + 3, Deg(-1) + 3>>

\* result of a geocode call: NoGdf stands for the exception it raises
GeocodeOutcomes == {NoGdf} \cup {Gdf(<<b>>) : b \in GeocodeBoxes}

\* what a geocode call can return in this run: the geometry the service has
\* for the region, or an exception
GeocodeAnswers == {NoGdf, place}

\* response of the WFS endpoint: the feature collection is the sequence of
\* its features; status 0 stands for an exception of requests.get
WfsResponses ==
    { [status |-> 200, features |-> <<WfsBox>>],
      [status |-> 200, features |-> <<>>],
      [status |-> 500, features |-> <<>>],
      [status |-> 0,   features |-> <<>>] }

\* how far download_boundaries_dpa_zip gets
DpaOutcomes == {"status", "exception", "no_shp", "no_column", "no_match", "match"}

\* boundary.total_bounds of a one-row frame
total_bounds(gdf) == gdf.rows[1]

WriteFile(files, name, content) == (name :> content) @@ files

NoFiles == [n \in {} |-> <<>>]

-----------------------------------------------------------------------------
(* main: OSM stage and boundary stage *)

\* download_osm_data: self.boundary_gdf is assigned when a road network was
\* saved and the geocoder answered
download_osm_data(gdf, graph_saved, geo) ==
    IF graph_saved /\ geo.present THEN geo ELSE gdf

\* download_boundaries: the value returned
download_boundaries(resp) == resp.status = 200

\* faulty variant: the archive is tried whatever the WFS returned
DpaGuardAlways == TRUE

\* main: if (skip_wfs or not ok_wfs)
DpaGuard == skip_wfs \/ ~ok_wfs'

\* save_osm_boundary_fallback: the value returned (to_file may raise)
save_osm_boundary_fallback(gdf, to_file_ok) ==
    IF ~gdf.present \/ Len(gdf.rows) = 0 THEN FALSE ELSE to_file_ok

\* _load_boundary_for_dem: self.boundary_gdf, else a direct geocode
load_boundary_for_dem(gdf, geo) == IF gdf.present THEN gdf ELSE geo

BoundaryVars == <<ok_wfs, ok_dpa, attempts, bfiles>>

FetchVars == <<tier, codes, ci, mi, reqs, hgt_files, hgt_disk, tmp_disk, warned, budget, missing>>

SrtmVars == <<boundary, outputs, srtm_started, catalog_asked, srtm_ret, steps>>

PureVars == <<corner, tcode, decoded>>

RasterVars == <<rfiles, before, first, call>>

S2Vars == <<s2_boundary, s2_ret>>

DpaVars == <<archive, comuna, ranked>>

RunVars == <<accepted, run>>

ConfigVars == <<sources, skip_wfs, prior_disk, place>>

MainOsm ==
    /\ pc = "main_osm"
    /\ "osm" \in sources
    /\ \E graph_saved \in BOOLEAN, geo \in GeocodeAnswers :
          boundary_gdf' = download_osm_data(boundary_gdf, graph_saved, geo)
    /\ pc' = "main_ide"
    /\ UNCHANGED <<ConfigVars, BoundaryVars, FetchVars, SrtmVars, PureVars, RasterVars, S2Vars, DpaVars, RunVars>>

MainNoOsm ==
    /\ pc = "main_osm"
    /\ "osm" \notin sources
    /\ pc' = "main_ide"
    /\ UNCHANGED <<ConfigVars, boundary_gdf, BoundaryVars, FetchVars, SrtmVars, PureVars, RasterVars, S2Vars, DpaVars, RunVars>>

MainNoIde ==
    /\ pc = "main_ide"
    /\ "ide" \notin sources
    /\ pc' = "main_srtm"
    /\ UNCHANGED <<ConfigVars, boundary_gdf, BoundaryVars, FetchVars, SrtmVars, PureVars, RasterVars, S2Vars, DpaVars, RunVars>>

MainWfs ==
    /\ pc = "main_ide"
    /\ "ide" \in sources
    /\ ~skip_wfs
    /\ \E resp \in WfsResponses :
          /\ ok_wfs' = download_boundaries(resp)
          /\ bfiles' = IF resp.status = 200
                       THEN WriteFile(bfiles, "comuna_boundaries.geojson", resp.features)
                       ELSE bfiles
    /\ attempts' = Append(attempts, [src |-> "wfs", ok |-> ok_wfs'])
    /\ pc' = IF DpaGuard THEN "main_dpa" ELSE "main_srtm"
    /\ UNCHANGED <<ConfigVars, boundary_gdf, ok_dpa, FetchVars, SrtmVars, PureVars, RasterVars, S2Vars, DpaVars, RunVars>>

\* requests.get(wfs_url, params=params) has no timeout argument; 0 stands
\* for the default None
WfsTimeout == 0

\* a request whose endpoint never answers returns (with an exception) only
\* when it has a timeout
Blocks(timeout) == timeout = 0

\* the WFS endpoint accepts the connection and never answers
MainWfsBlocks ==
    /\ pc = "main_ide"
    /\ "ide" \in sources
    /\ ~skip_wfs
    /\ Blocks(WfsTimeout)
    /\ pc' = "wfs_blocked"
    /\ UNCHANGED <<ConfigVars, boundary_gdf, BoundaryVars, FetchVars, SrtmVars, PureVars, RasterVars, S2Vars, DpaVars, RunVars>>

MainSkipWfs ==
    /\ pc = "main_ide"
    /\ "ide" \in sources
    /\ skip_wfs
    /\ UNCHANGED <<ConfigVars, boundary_gdf, BoundaryVars, FetchVars, SrtmVars, PureVars, RasterVars, S2Vars, DpaVars, RunVars>>
    /\ pc' = IF DpaGuard THEN "main_dpa" ELSE "main_srtm"

MainDpa ==
    /\ pc = "main_dpa"
    /\ \E out \in DpaOutcomes :
          /\ ok_dpa' = (out = "match")
          /\ bfiles' = IF out = "match"
                       THEN WriteFile(bfiles, "comuna_boundaries_oficial.geojson", <<DpaBox>>)
                       ELSE bfiles
    /\ attempts' = Append(attempts, [src |-> "dpa", ok |-> ok_dpa'])
    /\ pc' = IF ok_dpa' THEN "main_srtm" ELSE "main_fallback"
    /\ UNCHANGED <<ConfigVars, boundary_gdf, ok_wfs, FetchVars, SrtmVars, PureVars, RasterVars, S2Vars, DpaVars, RunVars>>

MainFallback ==
    /\ pc = "main_fallback"
    /\ \E to_file_ok \in BOOLEAN :
          LET ok == save_osm_boundary_fallback(boundary_gdf, to_file_ok)
          IN  /\ bfiles' = IF ok THEN WriteFile(bfiles, "osm_boundary.geojson", boundary_gdf.rows)
                           ELSE bfiles
              /\ attempts' = Append(attempts, [src |-> "osm", ok |-> ok])
    /\ pc' = "main_srtm"
    /\ UNCHANGED <<ConfigVars, boundary_gdf, ok_wfs, ok_dpa, FetchVars, SrtmVars, PureVars, RasterVars, S2Vars, DpaVars, RunVars>>

MainNoSrtm ==
    /\ pc = "main_srtm"
    /\ "srtm" \notin sources
    /\ pc' = "done"
    /\ UNCHANGED <<ConfigVars, boundary_gdf, BoundaryVars, FetchVars, SrtmVars, PureVars, RasterVars, S2Vars, DpaVars, RunVars>>

MainSrtm ==
    /\ pc = "main_srtm"
    /\ "srtm" \in sources
    /\ srtm_started' = TRUE
    /\ pc' = "srtm_boundary"
    /\ UNCHANGED <<ConfigVars, boundary_gdf, BoundaryVars, FetchVars, boundary, outputs,
                   catalog_asked, srtm_ret, steps, PureVars, RasterVars, S2Vars, DpaVars, RunVars>>

\* how download_sentinel2 ends once it has a boundary
SentinelOutcomes == {"True", "False"}

\* main past the SRTM stage: if 'copernicus' in sources_list:
\* downloader.download_sentinel2(); it imports the catalog client, asks
\* _load_boundary_for_dem for the boundary and returns False without one
MainSentinel ==
    /\ pc = "done"
    /\ "copernicus" \in sources
    /\ \E imported \in BOOLEAN, geo \in GeocodeAnswers, out \in SentinelOutcomes :
          IF ~imported
          THEN /\ s2_ret' = "raised"
               /\ UNCHANGED s2_boundary
          ELSE /\ s2_boundary' = load_boundary_for_dem(boundary_gdf, geo)
               /\ s2_ret' = IF ~s2_boundary'.present \/ Len(s2_boundary'.rows) = 0
                             THEN "False" ELSE out
    /\ pc' = "s2_done"
    /\ UNCHANGED <<ConfigVars, boundary_gdf, BoundaryVars, FetchVars, SrtmVars, PureVars,
                   RasterVars, DpaVars, RunVars>>

-----------------------------------------------------------------------------
(* download_srtm_tiles: the fetch tiers *)

\* transport format of each entry of urls, in list order (what the url ends with)
Mirrors == <<"gz", "zip", "raw", "gz", "gz">>

\* byte size of a complete SRTM3 grid (1201 * 1201 * 2) and of a truncated one
PayloadSizes == {2884802, 500000}

\* if size < 2000000: logger.warning
WarnSize == 2000000

\* forced retry: if size > 1000000
ForcedMinSize == 1000000

\* what a mirror answers: status 0 stands for an exception of requests.get;
\* kind is what the body holds
MirrorResponses(fmt) ==
    { [status |-> 0, kind |-> "none", size |-> 0],
      [status |-> 404, kind |-> "none", size |-> 0] }
    \cup { [status |-> 200, kind |-> "grid", size |-> n] : n \in PayloadSizes }
    \cup (IF fmt \in {"gz", "zip"}
          THEN {[status |-> 200, kind |-> "corrupt", size |-> 0]} ELSE {})
    \cup (IF fmt = "zip"
          THEN {[status |-> 200, kind |-> "nomember", size |-> 0]} ELSE {})

Anomalous(resp) ==
    resp.status = 200 /\ (resp.kind # "grid" \/ resp.size < WarnSize)

\* the body of the try block up to "if base.exists()": whether <code>.hgt was
\* written, the working files left behind, whether an exception was raised
Materialize(t, fmt, resp) ==
    IF resp.status # 200
    THEN [wrote |-> FALSE, left |-> {}, raised |-> resp.status = 0]
    ELSE IF fmt = "gz"
    THEN IF resp.kind = "grid"
         THEN [wrote |-> TRUE, left |-> {}, raised |-> FALSE]
         ELSE [wrote |-> FALSE, left |-> {"hgt.gz"}, raised |-> TRUE]
    ELSE IF fmt = "zip"
    THEN IF resp.kind = "grid"
         THEN [wrote |-> TRUE, left |-> {}, raised |-> FALSE]
         ELSE IF resp.kind = "nomember"
         THEN [wrote |-> FALSE, left |-> {}, raised |-> FALSE]
         ELSE [wrote |-> FALSE, left |-> {"zip"}, raised |-> TRUE]
    ELSE IF t = "exhaustive"
    THEN [wrote |-> TRUE, left |-> {}, raised |-> FALSE]
    ELSE [wrote |-> FALSE, left |-> {}, raised |-> FALSE]

\* faulty variant: the mirror loop without its break
MirrorLoopEndsNoBreak(yielded, m) == m = Len(Mirrors)

\* the for-url loop ends on break (a file was yielded) or after the last url
MirrorLoopEnds(yielded, m) == yielded \/ m = Len(Mirrors)

SrtmBoundary ==
    /\ pc = "srtm_boundary"
    /\ \E geo \in GeocodeAnswers :
          boundary' = load_boundary_for_dem(boundary_gdf, geo)
    /\ IF ~boundary'.present \/ Len(boundary'.rows) = 0
       THEN /\ srtm_ret' = "False"
            /\ pc' = "done"
            /\ UNCHANGED <<tier, codes, ci, hgt_files>>
       ELSE /\ codes' = CornerCodes(total_bounds(boundary'))
            /\ tier' = "corner"
            /\ ci' = 1
            /\ hgt_files' = <<>>
            /\ pc' = "tile_begin"
            /\ UNCHANGED srtm_ret
    /\ UNCHANGED <<ConfigVars, boundary_gdf, BoundaryVars, mi, reqs, hgt_disk, tmp_disk,
                   warned, budget, missing, outputs, srtm_started, catalog_asked,
                   steps, PureVars, RasterVars, S2Vars, DpaVars, RunVars>>

\* for code in codes: if base.exists(): hgt_files.append(base); continue
TileOnDisk ==
    /\ pc = "tile_begin"
    /\ ci <= Len(codes)
    /\ codes[ci] \in DOMAIN hgt_disk
    /\ hgt_files' = Append(hgt_files, codes[ci])
    /\ ci' = ci + 1
    /\ UNCHANGED <<pc, ConfigVars, boundary_gdf, BoundaryVars, tier, codes, mi, reqs,
                   hgt_disk, tmp_disk, warned, budget, missing, SrtmVars, PureVars, RasterVars, S2Vars, DpaVars, RunVars>>

TileStart ==
    /\ pc = "tile_begin"
    /\ ci <= Len(codes)
    /\ codes[ci] \notin DOMAIN hgt_disk
    /\ mi' = 1
    /\ reqs' = <<>>
    /\ pc' = "tile_req"
    /\ UNCHANGED <<ConfigVars, boundary_gdf, BoundaryVars, tier, codes, ci, hgt_files,
                   hgt_disk, tmp_disk, warned, budget, missing, SrtmVars, PureVars, RasterVars, S2Vars, DpaVars, RunVars>>

\* faulty variant: the failed tile is not logged
NotDownloadedNever(yielded, ended) == FALSE

\* if not downloaded: logger.warning("No se pudo descargar tile ...")
NotDownloaded(yielded, ended) == ended /\ ~yielded

\* one pass of the for-url loop
TileRequest ==
    /\ pc = "tile_req"
    /\ \E resp \in MirrorResponses(Mirrors[mi]) :
          LET code == codes[ci]
              eff == Materialize(tier, Mirrors[mi], resp)
              disk == IF eff.wrote THEN (code :> resp.size) @@ hgt_disk ELSE hgt_disk
              yielded == ~eff.raised /\ resp.status = 200 /\ code \in DOMAIN disk
          IN  /\ Anomalous(resp) => budget > 0
              /\ budget' = IF Anomalous(resp) THEN budget - 1 ELSE budget
              /\ hgt_disk' = disk
              /\ tmp_disk' = tmp_disk \cup {<<k, code>> : k \in eff.left}
              /\ reqs' = Append(reqs, [mirror |-> mi, fmt |-> Mirrors[mi], status |-> resp.status,
                                     kind |-> resp.kind, yielded |-> yielded])
              /\ hgt_files' = IF yielded THEN Append(hgt_files, code) ELSE hgt_files
              /\ warned' = IF yielded /\ disk[code] < WarnSize
                           THEN warned \cup {code} ELSE warned
              /\ missing' = IF NotDownloaded(yielded, MirrorLoopEnds(yielded, mi))
                            THEN missing \cup {code} ELSE missing
              /\ IF MirrorLoopEnds(yielded, mi)
                 THEN /\ ci' = ci + 1
                      /\ pc' = "tile_begin"
                      /\ UNCHANGED mi
                 ELSE /\ mi' = mi + 1
                      /\ UNCHANGED <<pc, ci>>
    /\ UNCHANGED <<ConfigVars, boundary_gdf, BoundaryVars, tier, codes, SrtmVars, PureVars, RasterVars, S2Vars, DpaVars, RunVars>>

\* if not hgt_files: second attempt over the full range
StartExhaustive ==
    /\ pc = "tile_begin"
    /\ ci > Len(codes)
    /\ tier = "corner"
    /\ hgt_files = <<>>
    /\ codes' = FullCodes(total_bounds(boundary))
    /\ tier' = "exhaustive"
    /\ ci' = 1
    /\ mi' = 1
    /\ reqs' = <<>>
    /\ UNCHANGED <<pc, ConfigVars, boundary_gdf, BoundaryVars, hgt_files,
                   hgt_disk, tmp_disk, warned, budget, missing, SrtmVars, PureVars, RasterVars, S2Vars, DpaVars, RunVars>>

\* both "if not hgt_files" are skipped
TiersDone ==
    /\ pc = "tile_begin"
    /\ ci > Len(codes)
    /\ hgt_files # <<>>
    /\ pc' = "mosaic"
    /\ mi' = 1
    /\ reqs' = <<>>
    /\ UNCHANGED <<ConfigVars, boundary_gdf, BoundaryVars, tier, codes, ci, hgt_files,
                   hgt_disk, tmp_disk, warned, budget, missing, SrtmVars, PureVars, RasterVars, S2Vars, DpaVars, RunVars>>

\* if not hgt_files (after the second attempt): forced Mapzen download
StartForced ==
    /\ pc = "tile_begin"
    /\ ci > Len(codes)
    /\ tier = "exhaustive"
    /\ hgt_files = <<>>
    /\ tier' = "forced"
    /\ pc' = "forced"
    /\ mi' = 1
    /\ reqs' = <<>>
    /\ UNCHANGED <<ConfigVars, boundary_gdf, BoundaryVars, codes, ci, hgt_files,
                   hgt_disk, tmp_disk, warned, budget, missing, SrtmVars, PureVars, RasterVars, S2Vars, DpaVars, RunVars>>

\* forced retry: if size > 1000000: hgt_files.append(base_force)
ForcedAccepts(size) == size > ForcedMinSize

\* faulty variant: the catalog is searched whatever the forced retry gave
CatalogGuardAlways(files) == TRUE

\* if not hgt_files (after the forced retry): Copernicus DEM search
CatalogGuard(files) == files = <<>>

ForcedRetry ==
    /\ pc = "forced"
    /\ \E resp \in MirrorResponses("gz") :
          LET code == ForcedCode(total_bounds(boundary))
              wrote == resp.status = 200 /\ resp.kind = "grid"
          IN  /\ Anomalous(resp) => budget > 0
              /\ budget' = IF Anomalous(resp) THEN budget - 1 ELSE budget
              /\ tmp_disk' = IF resp.status = 200
                             THEN tmp_disk \cup {<<"hgt.gz", code>>} ELSE tmp_disk
              /\ hgt_disk' = IF wrote THEN (code :> resp.size) @@ hgt_disk ELSE hgt_disk
              /\ hgt_files' = IF wrote /\ ForcedAccepts(resp.size)
                              THEN Append(hgt_files, code) ELSE hgt_files
    /\ pc' = IF CatalogGuard(hgt_files') THEN "copernicus" ELSE "mosaic"
    /\ UNCHANGED <<ConfigVars, boundary_gdf, BoundaryVars, tier, codes, ci, mi, reqs,
                   warned, missing, SrtmVars, PureVars, RasterVars, S2Vars, DpaVars, RunVars>>

-----------------------------------------------------------------------------
(* download_srtm_tiles: satellite fallback, mosaic, clip, reprojection *)

\* <stem>_<epsg>.tif
Sibling(name) ==
    IF name = "srtm_dem.tif" THEN "srtm_dem_32719.tif" ELSE "copernicus_dem_32719.tif"

ReprojectOutcomes == {"ok", "open_error", "write_error"}

\* _reproject_dem(dem_path, 32719): the raster files afterwards
reproject_dem_files(outs, name, rp) ==
    IF rp = "ok" THEN WriteFile(outs, Sibling(name), "complete")
    ELSE IF rp = "write_error" THEN WriteFile(outs, Sibling(name), "partial")
    ELSE outs

\* faulty variant: the output file is opened before the raster is clipped
opens_output_early(out) == out \in {"clip_error", "write_error", "ok"}

\* rasterio.open(out_path, 'w', ...) comes after mask(...) has returned
opens_output(out) == out \in {"write_error", "ok"}

\* with rasterio.open(out_path, 'w', **meta) as dst: dst.write(clipped), then the
\* reprojection of the written file
write_output(outs, name, out, rp) ==
    IF ~opens_output(out) THEN outs
    ELSE IF out = "ok"
    THEN reproject_dem_files(WriteFile(outs, name, "complete"), name, rp)
    ELSE WriteFile(outs, name, "partial")

CopernicusOutcomes ==
    {"import_error", "search_error", "no_items", "open_error", "clip_error",
     "write_error", "ok"}

\* the steps of the Copernicus block completed before it returns
CopernicusSteps(out) ==
    IF out = "import_error" THEN <<>>
    ELSE IF out = "search_error" THEN <<"import">>
    ELSE IF out = "no_items" THEN <<"import", "search", "no_items">>
    ELSE IF out = "open_error" THEN <<"import", "search", "sign">>
    ELSE IF out = "clip_error" THEN <<"import", "search", "sign", "open">>
    ELSE IF out = "write_error" THEN <<"import", "search", "sign", "open", "mask">>
    ELSE <<"import", "search", "sign", "open", "mask", "write">>

CopernicusFallback ==
    /\ pc = "copernicus"
    /\ \E out \in CopernicusOutcomes, rp \in ReprojectOutcomes :
          /\ catalog_asked' = (out # "import_error")
          /\ steps' = CopernicusSteps(out)
          /\ outputs' = write_output(outputs, "copernicus_dem.tif", out, rp)
          /\ srtm_ret' = IF out = "ok" THEN "True" ELSE "False"
    /\ pc' = "done"
    /\ UNCHANGED <<ConfigVars, boundary_gdf, BoundaryVars, FetchVars, boundary,
                   srtm_started, PureVars, RasterVars, S2Vars, DpaVars, RunVars>>

MosaicOutcomes == {"open_error", "merge_error", "clip_error", "write_error", "ok"}

MosaicTmp == <<"tif", <<"m", "o", "s", "a", "i", "c">>>>

\* faulty variant: every tile set goes through the merge
single_tile_never(files) == FALSE

\* if len(hgt_files) == 1
single_tile(files) == Len(files) = 1

\* the steps of the single-tile branch completed before it ends
SingleSteps(out) ==
    IF out = "open_error" THEN <<>>
    ELSE IF out = "clip_error" THEN <<"open">>
    ELSE IF out = "write_error" THEN <<"open", "mask">>
    ELSE <<"open", "mask", "write">>

\* the steps of the merge branch completed before it ends
MergeSteps(out) ==
    IF out = "open_error" THEN <<>>
    ELSE IF out = "merge_error" THEN <<"open">>
    ELSE IF out = "clip_error" THEN <<"open", "merge", "tmp">>
    ELSE IF out = "write_error" THEN <<"open", "merge", "tmp", "mask">>
    ELSE <<"open", "merge", "tmp", "mask", "write", "rm_tmp">>

\* len(hgt_files) == 1: the tile is clipped directly
SingleTileClip ==
    /\ pc = "mosaic"
    /\ single_tile(hgt_files)
    /\ \E out \in MosaicOutcomes \ {"merge_error"}, rp \in ReprojectOutcomes :
          /\ steps' = SingleSteps(out)
          /\ outputs' = write_output(outputs, "srtm_dem.tif", out, rp)
          /\ srtm_ret' = IF out = "ok" THEN "True" ELSE "False"
    /\ pc' = "done"
    /\ UNCHANGED <<ConfigVars, boundary_gdf, BoundaryVars, FetchVars, boundary,
                   srtm_started, catalog_asked, PureVars, RasterVars, S2Vars, DpaVars, RunVars>>

\* else: merge, temporary mosaic, clip
MergeAndClip ==
    /\ pc = "mosaic"
    /\ ~single_tile(hgt_files)
    /\ \E out \in MosaicOutcomes, rp \in ReprojectOutcomes :
          /\ steps' = MergeSteps(out)
          /\ tmp_disk' = IF out \in {"clip_error", "write_error"}
                         THEN tmp_disk \cup {MosaicTmp} ELSE tmp_disk
          /\ outputs' = write_output(outputs, "srtm_dem.tif", out, rp)
          /\ srtm_ret' = IF out = "ok" THEN "True" ELSE "False"
    /\ pc' = "done"
    /\ UNCHANGED <<ConfigVars, boundary_gdf, BoundaryVars, tier, codes, ci, mi, reqs,
                   hgt_files, hgt_disk, warned, budget, missing, boundary, srtm_started,
                   catalog_asked, PureVars, RasterVars, S2Vars, DpaVars, RunVars>>

-----------------------------------------------------------------------------
(* The run of main *)

NoRasters == [p \in {} |-> <<>>]

\* a path: its directory, stem and suffix (pathlib's parent, stem, suffix)
Path(dir, stem, suffix) == [dir |-> dir, stem |-> stem, suffix |-> suffix]

NoCall == [fn |-> "none", dem_path |-> Path("", "", ""), out_path |-> Path("", "", ""),
           epsg |-> ""]

\* the download script makes no call of the raster functions of process_data
InitNoRasters ==
    /\ s2_boundary = NoGdf
    /\ s2_ret = "pending"
    /\ archive = <<>>
    /\ comuna = <<>>
    /\ ranked = <<>>
    /\ run = 1
    /\ rfiles = NoRasters
    /\ before = NoRasters
    /\ first = NoRasters
    /\ call = NoCall

NoTiles == [c \in {} |-> 0]

\* <code>.hgt files an earlier run left in output_dir
PriorDisks == {NoTiles, tile_code(-1, -1) :> 2884802}

InitCommon ==
    /\ ok_wfs = FALSE
    /\ ok_dpa = FALSE
    /\ attempts = <<>>
    /\ bfiles = NoFiles
    /\ tier = "none"
    /\ codes = <<>>
    /\ ci = 1
    /\ mi = 1
    /\ reqs = <<>>
    /\ hgt_files = <<>>
    /\ tmp_disk = {}
    /\ warned = {}
    /\ outputs = NoFiles
    /\ srtm_started = FALSE
    /\ catalog_asked = FALSE
    /\ srtm_ret = "pending"
    /\ missing = {}
    /\ steps = <<>>
    /\ tcode = <<>>
    /\ decoded = <<>>

\* the whole run of main; the mirrors fail or serve complete grids
Init ==
    /\ pc = "main_osm"
    /\ sources \in SUBSET {"osm", "ide", "srtm", "copernicus"}
    /\ skip_wfs \in BOOLEAN
    /\ boundary_gdf = NoGdf
    /\ hgt_disk \in PriorDisks
    /\ prior_disk = hgt_disk
    /\ accepted = DOMAIN prior_disk
    /\ place \in GeocodeOutcomes
    /\ boundary = NoGdf
    /\ budget = 0
    /\ corner = <<0, 0>>
    /\ InitCommon
    /\ InitNoRasters

Next ==
    \/ MainOsm
    \/ MainNoOsm
    \/ MainNoIde
    \/ MainWfs
    \/ MainWfsBlocks
    \/ MainSkipWfs
    \/ MainDpa
    \/ MainFallback
    \/ MainNoSrtm
    \/ MainSrtm
    \/ SrtmBoundary
    \/ TileOnDisk
    \/ TileStart
    \/ TileRequest
    \/ StartExhaustive
    \/ TiersDone
    \/ StartForced
    \/ ForcedRetry
    \/ CopernicusFallback
    \/ SingleTileClip
    \/ MergeAndClip
    \/ MainSentinel

Spec == Init /\ [][Next]_vars

\* the script is one thread: a step that can be taken is taken
SpecLive == Init /\ [][Next]_vars /\ WF_vars(Next)

-----------------------------------------------------------------------------
(* download_srtm_tiles alone, called by main after the OSM stage (sources *)
(* osm,srtm); the mirrors also serve anomalous payloads                   *)

\* what the geocoder has: also a box that lies across the meridian, in the
\* cells S01W001 and S01E000, which the OSM stage stored
SrtmBoxes == GeocodeBoxes \cup { <<Deg(-1) + 2, Deg(-1) + 2, Deg(0) + 2, Deg(-1) + 3>> }

InitSrtm ==
    /\ pc = "main_srtm"
    /\ sources = {"osm", "srtm"}
    /\ skip_wfs = FALSE
    /\ place \in {Gdf(<<b>>) : b \in SrtmBoxes}
    /\ boundary_gdf \in IF total_bounds(place) \in GeocodeBoxes THEN {NoGdf, place} ELSE {place}
    /\ hgt_disk \in PriorDisks
    /\ prior_disk = hgt_disk
    /\ accepted = DOMAIN prior_disk
    /\ boundary = NoGdf
    /\ budget = MaxAnomalies
    /\ corner = <<0, 0>>
    /\ InitCommon
    /\ InitNoRasters

NextSrtm ==
    \/ MainSrtm
    \/ SrtmBoundary
    \/ TileOnDisk
    \/ TileStart
    \/ TileRequest
    \/ StartExhaustive
    \/ TiersDone
    \/ StartForced
    \/ ForcedRetry
    \/ CopernicusFallback
    \/ SingleTileClip
    \/ MergeAndClip

SpecSrtm == InitSrtm /\ [][NextSrtm]_vars

\* a boundary three cells wide: it lies in S01W002, S01W001 and S01E000
WideBox == <<Deg(-2) + 2, Deg(-1) + 2, Deg(0) + 2, Deg(-1) + 3>>

\* download_srtm_tiles for the wide boundary; the mirrors fail or serve
\* complete grids
InitWide ==
    /\ pc = "main_srtm"
    /\ sources = {"osm", "srtm"}
    /\ skip_wfs = FALSE
    /\ place = Gdf(<<WideBox>>)
    /\ boundary_gdf = place
    /\ hgt_disk \in PriorDisks
    /\ prior_disk = hgt_disk
    /\ accepted = DOMAIN prior_disk
    /\ boundary = NoGdf
    /\ budget = 0
    /\ corner = <<0, 0>>
    /\ InitCommon
    /\ InitNoRasters

SpecWide == InitWide /\ [][NextSrtm]_vars

MaxRuns == 2

\* the script is started again on the same output_dir: a new DataDownloader
\* finds the files the earlier runs left
NextRun ==
    /\ pc = "done"
    /\ run < MaxRuns
    /\ run' = run + 1
    /\ accepted' = accepted \cup {hgt_files[i] : i \in 1..Len(hgt_files)}
    /\ prior_disk' = hgt_disk
    /\ pc' = "main_srtm"
    /\ tier' = "none"
    /\ codes' = <<>>
    /\ ci' = 1
    /\ mi' = 1
    /\ reqs' = <<>>
    /\ hgt_files' = <<>>
    /\ warned' = {}
    /\ missing' = {}
    /\ steps' = <<>>
    /\ boundary' = NoGdf
    /\ srtm_started' = FALSE
    /\ catalog_asked' = FALSE
    /\ srtm_ret' = "pending"
    /\ UNCHANGED <<sources, skip_wfs, place, boundary_gdf, BoundaryVars, hgt_disk, tmp_disk,
                   budget, outputs, PureVars, RasterVars, S2Vars, DpaVars>>

\* successive runs of download_srtm_tiles for a boundary inside one cell,
\* the first on an empty output_dir
InitRuns ==
    /\ pc = "main_srtm"
    /\ sources = {"osm", "srtm"}
    /\ skip_wfs = FALSE
    /\ place = Gdf(<<WfsBox>>)
    /\ boundary_gdf = place
    /\ hgt_disk = NoTiles
    /\ prior_disk = hgt_disk
    /\ accepted = {}
    /\ boundary = NoGdf
    /\ budget = MaxAnomalies
    /\ corner = <<0, 0>>
    /\ InitCommon
    /\ InitNoRasters

NextRuns == NextSrtm \/ NextRun

SpecRuns == InitRuns /\ [][NextRuns]_vars

-----------------------------------------------------------------------------
(* The planner alone, over every bounding box of the bounded grid *)

PlanCoords == Deg(-PlanDeg) .. (Deg(PlanDeg) + FracSlots - 1)

InitPlan ==
    /\ pc = "plan_in"
    /\ sources = {"srtm"}
    /\ skip_wfs = FALSE
    /\ boundary_gdf = NoGdf
    /\ budget = 0
    /\ hgt_disk = NoTiles
    /\ prior_disk = NoTiles
    /\ accepted = {}
    /\ place = NoGdf
    /\ \E x1 \in PlanCoords, y1 \in PlanCoords, x2 \in PlanCoords, y2 \in PlanCoords :
          /\ x1 <= x2
          /\ y1 <= y2
          /\ boundary = Gdf(<< <<x1, y1, x2, y2>> >>)
    /\ corner = <<0, 0>>
    /\ InitCommon
    /\ InitNoRasters

\* lines 659-669 of download_srtm_tiles
PlanCorner ==
    /\ pc = "plan_in"
    /\ codes' = CornerCodes(total_bounds(boundary))
    /\ pc' = "plan_out"
    /\ UNCHANGED <<ConfigVars, boundary_gdf, BoundaryVars, tier, ci, mi, reqs, hgt_files,
                   hgt_disk, tmp_disk, warned, budget, missing, SrtmVars, PureVars, RasterVars, S2Vars, DpaVars, RunVars>>

NextPlan == PlanCorner

SpecPlan == InitPlan /\ [][NextPlan]_vars

-----------------------------------------------------------------------------
(* The tile code and its parser alone, over every south-west corner *)

InitCode ==
    /\ pc = "code_in"
    /\ sources = {"srtm"}
    /\ skip_wfs = FALSE
    /\ boundary_gdf = NoGdf
    /\ budget = 0
    /\ hgt_disk = NoTiles
    /\ prior_disk = NoTiles
    /\ accepted = {}
    /\ place = NoGdf
    /\ boundary = NoGdf
    /\ corner \in (-(MaxLat + 1) .. MaxLat) \X (-(MaxLon + 1) .. MaxLon)
    /\ InitCommon
    /\ InitNoRasters

Encode ==
    /\ pc = "code_in"
    /\ tcode' = tile_code(corner[1], corner[2])
    /\ pc' = "code_out"
    /\ UNCHANGED <<ConfigVars, boundary_gdf, BoundaryVars, FetchVars, SrtmVars, corner, decoded, RasterVars, S2Vars, DpaVars, RunVars>>

Decode ==
    /\ pc = "code_out"
    /\ decoded' = ParseTileName(tcode)
    /\ pc' = "code_done"
    /\ UNCHANGED <<ConfigVars, boundary_gdf, BoundaryVars, FetchVars, SrtmVars, corner, tcode, RasterVars, S2Vars, DpaVars, RunVars>>

NextCode == Encode \/ Decode

SpecCode == InitCode /\ [][NextCode]_vars

-----------------------------------------------------------------------------
(* Rasters, the clipper and the reprojectors (process_data.py, and         *)
(* DataDownloader._reproject_dem)                                          *)

\* a band: the data it was read from and the resamplings applied since
Band(d) == [data |-> d, warps |-> <<>>]

\* a band of a new dataset that was never written
EmptyBand == Band(0)

\* a raster file: whole is FALSE when the writer died before closing it
Raster(crs, bands, extent) == [crs |-> crs, bands |-> bands, extent |-> extent, whole |-> TRUE]

\* rasterio.open(path, 'w', **meta) followed by an exception
Partial(crs) == [crs |-> crs, bands |-> <<>>, extent |-> "none", whole |-> FALSE]

\* faulty variant: a resampler that draws from a generator whose state moves
\* on with every call
WarpDithered(band, dst_crs) ==
    [data |-> band.data + Len(steps) + 1, warps |-> Append(band.warps, dst_crs)]

\* reproject(source=band, ..., resampling=Resampling.bilinear)
Warp(band, dst_crs) == [data |-> band.data, warps |-> Append(band.warps, dst_crs)]

\* dst_crs = f"EPSG:{target_epsg}"
Crs(epsg) == "EPSG:" \o epsg

\* faulty variant: the result written over the source
sibling_path_same(dem_path, target_epsg) == dem_path

\* out_path = dem_path.parent / f"{dem_path.stem}_{target_epsg}.tif"
sibling_path(dem_path, target_epsg) ==
    Path(dem_path.dir, dem_path.stem \o "_" \o target_epsg, ".tif")

\* what a raster function did: the files afterwards and whether it raised
Effect(files, raised) == [files |-> files, raised |-> raised]

\* DataDownloader._reproject_dem: every band of the source is resampled
_reproject_dem(files, dem_path, target_epsg, outcome) ==
    LET out_path == sibling_path(dem_path, target_epsg)
    IN  IF dem_path \notin DOMAIN files \/ ~files[dem_path].whole \/ outcome = "open_error"
        THEN Effect(files, TRUE)
        ELSE IF outcome = "write_error"
        THEN Effect(WriteFile(files, out_path, Partial(Crs(target_epsg))), TRUE)
        ELSE LET src == files[dem_path]
             IN  Effect(WriteFile(files, out_path,
                           Raster(Crs(target_epsg),
                                  [i \in 1..Len(src.bands) |-> Warp(src.bands[i], Crs(target_epsg))],
                                  src.extent)),
                        FALSE)

\* process_data.reproject_dem: band 1 is resampled, the other bands of the
\* new dataset are never written
reproject_dem(files, src_path, dst_path, epsg, outcome) ==
    IF src_path \notin DOMAIN files \/ ~files[src_path].whole \/ outcome = "open_error"
    THEN Effect(files, TRUE)
    ELSE IF outcome = "write_error"
    THEN Effect(WriteFile(files, dst_path, Partial(Crs(epsg))), TRUE)
    ELSE LET src == files[src_path]
         IN  Effect(WriteFile(files, dst_path,
                       Raster(Crs(epsg),
                              [i \in 1..Len(src.bands) |->
                                  IF i = 1 THEN Warp(src.bands[1], Crs(epsg)) ELSE EmptyBand],
                              src.extent)),
                    FALSE)

\* how far clip_dem_to_boundary gets
ClipOutcomes == {"boundary_error", "open_error", "mask_error", "write_error", "ok"}

\* clip_dem_to_boundary gets as far as rasterio.open(dem_path, 'w'): the
\* boundary file and the raster were read and the mask was computed
ClipWrites(files, dem_path, boundary_path, outcome) ==
    /\ boundary_path \in DOMAIN bfiles
    /\ dem_path \in DOMAIN files
    /\ files[dem_path].whole
    /\ outcome \in {"write_error", "ok"}

\* process_data.clip_dem_to_boundary: the clipped raster is written to
\* dem_path; every exception is caught and logged
clip_dem_to_boundary(files, dem_path, boundary_path, out_path, outcome) ==
    IF ~ClipWrites(files, dem_path, boundary_path, outcome)
    THEN Effect(files, FALSE)
    ELSE IF outcome = "write_error"
    THEN Effect(WriteFile(files, dem_path, Partial(files[dem_path].crs)), FALSE)
    ELSE Effect(WriteFile(files, dem_path, [files[dem_path] EXCEPT !.extent = "clipped"]), FALSE)

\* whether the call of clip_dem_to_boundary clipped the raster
Clipped(files, dem_path, boundary_path, outcome) ==
    ClipWrites(files, dem_path, boundary_path, outcome) /\ outcome = "ok"

\* the files of generate_dem_derivatives
RawDem == Path("data/raw", "srtm_dem", ".tif")

RawDemUtm == Path("data/raw", "srtm_dem_32719", ".tif")

SlopePath == Path("data/processed", "slope", ".tif")

AspectPath == Path("data/processed", "aspect", ".tif")

BoundaryPath == "comuna_boundaries_oficial.geojson"

NonRasterVars == <<ConfigVars, boundary_gdf, ok_wfs, ok_dpa, attempts, bfiles, FetchVars,
                boundary, outputs, srtm_started, catalog_asked, srtm_ret, PureVars,
                   S2Vars, DpaVars, RunVars>>

\* generate_dem_derivatives, lines 109-122: no tile, or create / reuse srtm_dem.tif
DerivBegin ==
    /\ pc = "deriv_begin"
    /\ IF hgt_disk = NoTiles
       THEN /\ pc' = "done"
            /\ UNCHANGED <<rfiles, steps>>
       ELSE IF RawDem \in DOMAIN rfiles
       THEN /\ pc' = "deriv_clip"
            /\ UNCHANGED <<rfiles, steps>>
       ELSE \E outcome \in {"ok", "read_error", "write_error"} :
               /\ rfiles' = IF outcome = "ok"
                            THEN WriteFile(rfiles, RawDem, Raster("EPSG:4326", <<Band(1)>>, "full"))
                            ELSE IF outcome = "write_error"
                            THEN WriteFile(rfiles, RawDem, Partial("EPSG:4326"))
                            ELSE rfiles
               /\ steps' = IF outcome = "ok" THEN Append(steps, "create") ELSE steps
               /\ pc' = IF outcome = "ok" THEN "deriv_clip" ELSE "raised"
    /\ UNCHANGED <<NonRasterVars, before, first, call>>

\* lines 124-128: clip in place when the official boundary file exists
DerivClip ==
    /\ pc = "deriv_clip"
    /\ IF BoundaryPath \in DOMAIN bfiles
       THEN \E outcome \in ClipOutcomes :
               /\ rfiles' = clip_dem_to_boundary(rfiles, RawDem, BoundaryPath, RawDem, outcome).files
               /\ steps' = Append(steps, IF Clipped(rfiles, RawDem, BoundaryPath, outcome)
                                          THEN "clip_ok" ELSE "clip_failed")
       ELSE UNCHANGED <<rfiles, steps>>
    /\ pc' = "deriv_reproject"
    /\ UNCHANGED <<NonRasterVars, before, first, call>>

\* lines 130-133: reproject unless srtm_dem_32719.tif exists
DerivReproject ==
    /\ pc = "deriv_reproject"
    /\ IF RawDemUtm \in DOMAIN rfiles
       THEN /\ pc' = "deriv_slope"
            /\ UNCHANGED <<rfiles, steps>>
       ELSE \E rp \in ReprojectOutcomes :
               LET eff == reproject_dem(rfiles, RawDem, RawDemUtm, "32719", rp)
               IN  /\ rfiles' = eff.files
                   /\ steps' = Append(steps, IF eff.raised THEN "reproject_failed"
                                              ELSE "reproject_ok")
                   /\ pc' = IF eff.raised THEN "raised" ELSE "deriv_slope"
    /\ UNCHANGED <<NonRasterVars, before, first, call>>

\* slope or aspect computed from band 1 of the projected raster
Derived(r, what) ==
    Raster(r.crs, <<[data |-> r.bands[1].data, warps |-> Append(r.bands[1].warps, what)]>>,
           r.extent)

\* lines 135-162: slope and aspect unless both exist
DerivSlope ==
    /\ pc = "deriv_slope"
    /\ IF SlopePath \in DOMAIN rfiles /\ AspectPath \in DOMAIN rfiles
       THEN /\ pc' = "done"
            /\ UNCHANGED <<rfiles, steps>>
       ELSE \E outcome \in {"ok", "open_error", "write_error"} :
               LET readable == rfiles[RawDemUtm].whole /\ rfiles[RawDemUtm].bands # <<>>
                                  /\ outcome # "open_error"
               IN  /\ rfiles' =
                         IF ~readable THEN rfiles
                         ELSE IF outcome = "write_error"
                         THEN WriteFile(rfiles, SlopePath, Partial(rfiles[RawDemUtm].crs))
                         ELSE WriteFile(WriteFile(rfiles, SlopePath, Derived(rfiles[RawDemUtm], "slope")),
                                        AspectPath, Derived(rfiles[RawDemUtm], "aspect"))
                   /\ steps' = IF readable /\ outcome = "ok" THEN Append(steps, "slope") ELSE steps
                   /\ pc' = IF readable /\ outcome = "ok" THEN "done" ELSE "raised"
    /\ UNCHANGED <<NonRasterVars, before, first, call>>

\* one call of clip_dem_to_boundary(dem_path, boundary_path, out_path)
ClipCall ==
    /\ pc = "clip_call"
    /\ \E outcome \in ClipOutcomes :
          /\ rfiles' = clip_dem_to_boundary(rfiles, call.dem_path, BoundaryPath,
                                            call.out_path, outcome).files
          /\ steps' = Append(steps, IF Clipped(rfiles, call.dem_path, BoundaryPath, outcome)
                                     THEN "clip_ok" ELSE "clip_failed")
    /\ pc' = "call_done"
    /\ UNCHANGED <<NonRasterVars, before, first, call>>

\* a call of DataDownloader._reproject_dem(dem_path, epsg), made twice
DownloaderReprojectCall ==
    /\ pc \in {"rp_call1", "rp_call2"}
    /\ call.fn = "_reproject_dem"
    /\ \E rp \in ReprojectOutcomes :
          LET eff == _reproject_dem(rfiles, call.dem_path, call.epsg, rp)
          IN  /\ rfiles' = eff.files
              /\ steps' = Append(steps, IF eff.raised THEN "reproject_failed" ELSE "reproject_ok")
    /\ first' = IF pc = "rp_call1" THEN rfiles' ELSE first
    /\ pc' = IF pc = "rp_call1" THEN "rp_call2" ELSE "call_done"
    /\ UNCHANGED <<NonRasterVars, before, call>>

\* a call of process_data.reproject_dem(src_path, dst_path, epsg), made twice
ProcessReprojectCall ==
    /\ pc \in {"rp_call1", "rp_call2"}
    /\ call.fn = "reproject_dem"
    /\ \E rp \in ReprojectOutcomes :
          LET eff == reproject_dem(rfiles, call.dem_path, call.out_path, call.epsg, rp)
          IN  /\ rfiles' = eff.files
              /\ steps' = Append(steps, IF eff.raised THEN "reproject_failed" ELSE "reproject_ok")
    /\ first' = IF pc = "rp_call1" THEN rfiles' ELSE first
    /\ pc' = IF pc = "rp_call1" THEN "rp_call2" ELSE "call_done"
    /\ UNCHANGED <<NonRasterVars, before, call>>

CopDem == Path("data/raw", "copernicus_dem", ".tif")

\* what data/raw and data/processed hold when process_data starts
RasterDirs ==
    { dem @@ utm @@ cop @@ slo @@ asp :
        dem \in { NoRasters,
                  RawDem :> Raster("EPSG:4326", <<Band(1)>>, "full"),
                  RawDem :> Raster("EPSG:4326", <<Band(1), Band(2)>>, "full") },
        utm \in { NoRasters,
                  RawDemUtm :> Raster("EPSG:32719", <<[data |-> 3, warps |-> <<"EPSG:32719">>]>>,
                                      "clipped") },
        cop \in { NoRasters, CopDem :> Raster("EPSG:4326", <<Band(4)>>, "clipped") },
        slo \in { NoRasters,
                  SlopePath :> Raster("EPSG:32719", <<Band(5)>>, "clipped") },
        asp \in { NoRasters,
                  AspectPath :> Raster("EPSG:32719", <<Band(6)>>, "clipped") } }

CallPaths == {RawDem, RawDemUtm, CopDem}

\* the calls made: the derivatives pipeline, or one function on its own
RasterCalls ==
    { [fn |-> "generate_dem_derivatives", dem_path |-> RawDem, out_path |-> RawDem,
       epsg |-> "32719"] }
    \cup { [fn |-> "clip_dem_to_boundary", dem_path |-> d, out_path |-> o, epsg |-> ""] :
             d \in CallPaths, o \in CallPaths }
    \cup { [fn |-> "_reproject_dem", dem_path |-> d, out_path |-> sibling_path(d, "32719"),
            epsg |-> "32719"] : d \in CallPaths }
    \cup UNION { { [fn |-> "reproject_dem", dem_path |-> d, out_path |-> o, epsg |-> "32719"] :
                      o \in CallPaths \ {d} } : d \in CallPaths }

InitDem ==
    /\ call \in RasterCalls
    /\ pc = IF call.fn = "generate_dem_derivatives" THEN "deriv_begin"
            ELSE IF call.fn = "clip_dem_to_boundary" THEN "clip_call"
            ELSE "rp_call1"
    /\ rfiles \in RasterDirs
    /\ before = rfiles
    /\ first = NoRasters
    /\ bfiles \in {NoFiles, BoundaryPath :> <<DpaBox>>}
    /\ hgt_disk \in PriorDisks
    /\ prior_disk = hgt_disk
    /\ sources = {"srtm"}
    /\ skip_wfs = FALSE
    /\ boundary_gdf = NoGdf
    /\ boundary = NoGdf
    /\ budget = 0
    /\ corner = <<0, 0>>
    /\ ok_wfs = FALSE /\ ok_dpa = FALSE /\ attempts = <<>>
    /\ tier = "none" /\ codes = <<>> /\ ci = 1 /\ mi = 1 /\ reqs = <<>>
    /\ hgt_files = <<>> /\ tmp_disk = {} /\ warned = {} /\ missing = {}
    /\ outputs = NoFiles /\ srtm_started = FALSE /\ catalog_asked = FALSE
    /\ srtm_ret = "pending" /\ steps = <<>>
    /\ tcode = <<>> /\ decoded = <<>>
    /\ place = NoGdf /\ accepted = {}
    /\ s2_boundary = NoGdf /\ s2_ret = "pending"
    /\ archive = <<>> /\ comuna = <<>> /\ ranked = <<>> /\ run = 1

NextDem ==
    \/ DerivBegin
    \/ DerivClip
    \/ DerivReproject
    \/ DerivSlope
    \/ ClipCall
    \/ DownloaderReprojectCall
    \/ ProcessReprojectCall

SpecDem == InitDem /\ [][NextDem]_vars

-----------------------------------------------------------------------------
(* download_boundaries_dpa_zip: the ranking of the layers and the filter by *)
(* name. A text is the sequence of the code points (ord) of its characters  *)

MaxLayers == 2

\* bytes.decode("windows-1252") of one byte
Cp1252(b) ==
    IF b \in 128..159
    THEN (128 :> 8364 @@ 130 :> 8218 @@ 131 :> 402 @@ 132 :> 8222 @@ 133 :> 8230
          @@ 134 :> 8224 @@ 135 :> 8225 @@ 136 :> 710 @@ 137 :> 8240 @@ 138 :> 352
          @@ 139 :> 8249 @@ 140 :> 338 @@ 142 :> 381 @@ 145 :> 8216 @@ 146 :> 8217
          @@ 147 :> 8220 @@ 148 :> 8221 @@ 149 :> 8226 @@ 150 :> 8211 @@ 151 :> 8212
          @@ 152 :> 732 @@ 153 :> 8482 @@ 154 :> 353 @@ 155 :> 8250 @@ 156 :> 339
          @@ 158 :> 382 @@ 159 :> 376)[b]
    ELSE b

\* text.encode("latin1").decode("windows-1252"), the text kept when either
\* raises: cp1252 leaves the bytes 81, 8D, 8F, 90 and 9D undefined
Repair(text) ==
    IF \A i \in 1..Len(text) : text[i] <= 255 /\ text[i] \notin {129, 141, 143, 144, 157}
    THEN [i \in 1..Len(text) |-> Cp1252(text[i])]
    ELSE text

\* unicodedata.normalize("NFKD", c) for the characters of the texts below:
\* A-acute, a-acute, N-tilde, n-tilde split into letter and combining mark
Decompose(c) ==
    IF c = 193 THEN <<65, 769>>
    ELSE IF c = 225 THEN <<97, 769>>
    ELSE IF c = 209 THEN <<78, 771>>
    ELSE IF c = 241 THEN <<110, 771>>
    ELSE <<c>>

RECURSIVE Nfkd(_)
Nfkd(text) == IF text = <<>> THEN <<>> ELSE Decompose(Head(text)) \o Nfkd(Tail(text))

\* unicodedata.combining(c) != 0
Combining(c) == c \in 768..879

Printable(c) == 32 <= c /\ c <= 126

\* str.upper() of one character (ASCII and Latin-1 letters)
UpperChar(c) ==
    IF c \in 97..122 \/ (c \in 224..254 /\ c # 247) THEN c - 32 ELSE c

\* str.lower() of one character (ASCII and Latin-1 letters)
LowerChar(c) ==
    IF c \in 65..90 \/ (c \in 192..222 /\ c # 215) THEN c + 32 ELSE c

Upper(text) == [i \in 1..Len(text) |-> UpperChar(text[i])]

Lower(text) == [i \in 1..Len(text) |-> LowerChar(text[i])]

\* str.strip(): whitespace removed at both ends
RECURSIVE Strip(_)
Strip(text) ==
    IF text = <<>> THEN <<>>
    ELSE IF Head(text) = 32 THEN Strip(Tail(text))
    ELSE IF text[Len(text)] = 32 THEN Strip(SubSeq(text, 1, Len(text) - 1))
    ELSE text

\* sub in text
Contains(text, sub) ==
    \E i \in 0..(Len(text) - Len(sub)) : SubSeq(text, i + 1, i + Len(sub)) = sub

\* DataDownloader._normalize
_normalize(text) ==
    Strip(Upper(SelectSeq(SelectSeq(Nfkd(Repair(text)), LAMBDA c : ~Combining(c)), Printable)))

\* faulty variant: the value compared as it is read
norm_val_raw(v) == Lower(v)

\* norm_val(v) = self._normalize(str(v)).lower()
norm_val(v) == Lower(_normalize(v))

MarkerScore == 10

BytesPerKB == 1024

\* 'com' in f.name.lower()
HasMarker(f) == Contains(Lower(f.name), <<99, 111, 109>>)

\* the score of a .shp file, in units of 1/1024:
\* score = 0; if 'com' in lname: score += 10; score += f.stat().st_size / 1024.0
score(f) == (IF HasMarker(f) THEN MarkerScore ELSE 0) * BytesPerKB + f.size

\* shp_candidates.sort(reverse=True, key=lambda x: x[0]): equal scores keep
\* their order
RECURSIVE SortByScore(_)
SortByScore(c) ==
    IF c = <<>> THEN <<>>
    ELSE LET i == CHOOSE i \in 1..Len(c) :
                     /\ \A j \in 1..Len(c) : score(c[j]) <= score(c[i])
                     /\ \A j \in 1..(i - 1) : score(c[j]) < score(c[i])
         IN  <<c[i]>> \o SortByScore(SubSeq(c, 1, i - 1) \o SubSeq(c, i + 1, Len(c)))

\* 'comuna' in c.lower() or 'nom_com' in c.lower()
IsComunaCol(c) ==
    \/ Contains(Lower(c), <<99, 111, 109, 117, 110, 97>>)
    \/ Contains(Lower(c), <<110, 111, 109, 95, 99, 111, 109>>)

\* the indexes of comuna_cols in gdf.columns
ComunaCols(layer) == {k \in 1..Len(layer.columns) : IsComunaCol(layer.columns[k])}

\* col = comuna_cols[0]
FirstComunaCol(layer) == CHOOSE k \in ComunaCols(layer) : \A m \in ComunaCols(layer) : k <= m

\* gdf[[norm_val(v) == target_norm for v in gdf[col]]]
FilterRows(layer, col, comuna_name) ==
    LET target_norm == Lower(_normalize(comuna_name))
        Keep(row) == norm_val(row[col]) = target_norm
    IN  SelectSeq(layer.rows, Keep)

DpaResult(ok, branch, sorted, rows) ==
    [ok |-> ok, branch |-> branch, ranked |-> sorted, rows |-> rows]

\* download_boundaries_dpa_zip: the value returned, the branch taken, the
\* ranking and the rows written to comuna_boundaries_oficial.geojson
download_boundaries_dpa_zip(resp, layers, comuna_name, to_file_ok) ==
    IF resp # "ok" THEN DpaResult(FALSE, resp, <<>>, <<>>)
    ELSE IF layers = <<>> THEN DpaResult(FALSE, "no_shp", <<>>, <<>>)
    ELSE LET sorted == SortByScore(layers)
             gdf == sorted[1]
         IN  IF ComunaCols(gdf) = {} THEN DpaResult(FALSE, "no_column", sorted, <<>>)
             ELSE LET filtered == FilterRows(gdf, FirstComunaCol(gdf), comuna_name)
                  IN  IF Len(filtered) = 0 THEN DpaResult(FALSE, "no_match", sorted, <<>>)
                      ELSE IF ~to_file_ok THEN DpaResult(FALSE, "exception", sorted, <<>>)
                      ELSE DpaResult(TRUE, "match", sorted, filtered)

\* the .shp layers an archive can hold: "Com.shp" (names with accents, mixed
\* case and blanks), "Reg.shp" (larger, no comuna column), "COMB.shp" (a code
\* column before the name column), "Prov.shp" (names with stray bytes); the
\* columns are named "REG", "Nom_Com", "COD_COMUNA" and "COMUNA"
Layers ==
    LET Shp == <<46, 115, 104, 112>>
        ColReg == <<82, 69, 71>>
        ColNomCom == <<78, 111, 109, 95, 67, 111, 109>>
        ColCodComuna == <<67, 79, 68, 95, 67, 79, 77, 85, 78, 65>>
        ColComuna == <<67, 79, 77, 85, 78, 65>>
    IN
    { [name |-> <<67, 111, 109>> \o Shp, size |-> 2048, columns |-> <<ColReg, ColNomCom>>,
       rows |-> << <<<<82, 77>>, <<209, 85, 209, 79, 65>>>>,
                   <<<<82, 77>>, <<77, 97, 99, 117, 108>>>>,
                   <<<<82, 77>>, <<32, 241, 117, 241, 111, 97, 32>>>> >>],
      [name |-> <<82, 101, 103>> \o Shp, size |-> 20480, columns |-> <<ColReg>>,
       rows |-> << <<<<82, 77>>>> >>],
      [name |-> <<67, 79, 77, 66>> \o Shp, size |-> 2048, columns |-> <<ColCodComuna, ColComuna>>,
       rows |-> << <<<<49, 51>>, <<78, 117, 110, 111, 97>>>> >>],
      [name |-> <<80, 114, 111, 118>> \o Shp, size |-> 4096, columns |-> <<ColComuna>>,
       rows |-> << <<<<209, 117, 141, 241, 111, 97>>>>,
                   <<<<77, 65, 67, 85, 76, 128>>>>,
                   <<<<78, 85, 78, 79, 193>>>> >>] }

\* the archives: up to MaxLayers distinct layers, in the order rglob yields them
RECURSIVE Archives(_)
Archives(n) ==
    IF n = 0 THEN {<<>>}
    ELSE Archives(n - 1)
         \cup {Append(a, l) : a \in {b \in Archives(n - 1) : Len(b) = n - 1},
                              l \in Layers}

\* comuna names asked for: "Ñuñoa", "macul", "Lampa"
ComunaNames == {<<209, 117, 241, 111, 97>>, <<109, 97, 99, 117, 108>>, <<76, 97, 109, 112, 97>>}

\* how the request for the archive ends: status 200, another status, exception
DpaResponses == {"ok", "status", "exception"}

\* one call of download_boundaries_dpa_zip(dpa_url, comuna_name)
DpaCall ==
    /\ pc = "dpa_call"
    /\ \E resp \in DpaResponses, to_file_ok \in BOOLEAN :
          LET res == download_boundaries_dpa_zip(resp, archive, comuna, to_file_ok)
          IN  /\ ok_dpa' = res.ok
              /\ ranked' = res.ranked
              /\ steps' = <<res.branch>>
              /\ bfiles' = IF res.ok
                           THEN WriteFile(bfiles, "comuna_boundaries_oficial.geojson", res.rows)
                           ELSE bfiles
    /\ pc' = "dpa_done"
    /\ UNCHANGED <<ConfigVars, boundary_gdf, ok_wfs, attempts, FetchVars, boundary, outputs,
                   srtm_started, catalog_asked, srtm_ret, PureVars, RasterVars, S2Vars,
                   archive, comuna, RunVars>>

InitDpa ==
    /\ pc = "dpa_call"
    /\ archive \in {a \in Archives(MaxLayers) : \A i, j \in 1..Len(a) : i # j => a[i] # a[j]}
    /\ comuna \in ComunaNames
    /\ ranked = <<>>
    /\ sources = {"ide"}
    /\ skip_wfs = TRUE
    /\ boundary_gdf = NoGdf
    /\ hgt_disk = NoTiles
    /\ prior_disk = NoTiles
    /\ accepted = {}
    /\ place = NoGdf
    /\ boundary = NoGdf
    /\ budget = 0
    /\ corner = <<0, 0>>
    /\ s2_boundary = NoGdf
    /\ s2_ret = "pending"
    /\ run = 1
    /\ rfiles = NoRasters
    /\ before = NoRasters
    /\ first = NoRasters
    /\ call = NoCall
    /\ InitCommon

NextDpa == DpaCall

SpecDpa == InitDpa /\ [][NextDpa]_vars

-----------------------------------------------------------------------------
(* Properties *)

Range(f) == {f[i] : i \in DOMAIN f}

SourceRank(src) == IF src = "wfs" THEN 1 ELSE IF src = "dpa" THEN 2 ELSE 3

SourceFile(src) ==
    IF src = "wfs" THEN "comuna_boundaries.geojson"
    ELSE IF src = "dpa" THEN "comuna_boundaries_oficial.geojson"
    ELSE "osm_boundary.geojson"

Attempted(src) == \E i \in 1..Len(attempts) : attempts[i].src = src

\* C1: the boundary sources are called in the order WFS, DPA archive, OSM
\* fallback; a source is called only after every earlier source failed or
\* (the WFS, with --skip-wfs) was skipped, and no source is called after one
\* that succeeded.
C1_SourceOrder ==
    /\ \A i, j \in 1..Len(attempts) :
          i < j => SourceRank(attempts[i].src) < SourceRank(attempts[j].src)
    /\ \A i \in 1..Len(attempts) : attempts[i].ok => i = Len(attempts)
    /\ Attempted("dpa") => (Attempted("wfs") \/ skip_wfs)
    /\ Attempted("osm") => Attempted("dpa")
    /\ Attempted("wfs") => ~skip_wfs
    /\ pc \in {"main_dpa", "main_fallback"} => \A i \in 1..Len(attempts) : ~attempts[i].ok

C1_Witness ==
    /\ Len(attempts) = 3
    /\ attempts[1].src = "wfs" /\ ~attempts[1].ok
    /\ attempts[2].src = "dpa" /\ ~attempts[2].ok
    /\ attempts[3].src = "osm" /\ attempts[3].ok

AllSourcesFailed ==
    \A src \in {"wfs", "dpa", "osm"} :
       \E i \in 1..Len(attempts) : attempts[i].src = src /\ ~attempts[i].ok

NonEmptyBoundaryHeld == boundary.present /\ Len(boundary.rows) > 0

\* C2: when all three boundary sources failed, download_srtm_tiles is not
\* started; and no tile request or catalog query is made without a non-empty
\* boundary.
C2_AbortWithoutBoundary ==
    /\ AllSourcesFailed => ~srtm_started
    /\ (pc \in {"tile_req", "forced", "copernicus"} \/ catalog_asked) => NonEmptyBoundaryHeld

\* C3: the boundary the elevation stage works with is the geometry that the
\* first successful boundary source of the run delivered (stated for a source
\* that delivered at least one feature).
C3_ElevationUsesResolvedBoundary ==
    \A i \in 1..Len(attempts) :
       (/\ attempts[i].ok
        /\ \A j \in 1..(i - 1) : ~attempts[j].ok
        /\ bfiles[SourceFile(attempts[i].src)] # <<>>
        /\ boundary.present)
          => boundary.rows = bfiles[SourceFile(attempts[i].src)]

\* C4: download_boundaries returns True only for a status-200 response that
\* holds at least one feature (the response body is what the file holds).
C4_WfsSuccessNeedsFeatures ==
    \A i \in 1..Len(attempts) :
       (attempts[i].src = "wfs" /\ attempts[i].ok)
          => /\ "comuna_boundaries.geojson" \in DOMAIN bfiles
             /\ bfiles["comuna_boundaries.geojson"] # <<>>

\* the cell row (or column) c holds the interval [lo, hi] in the sense of the
\* planner: floor(lo) = c = floor(hi - 1e-9), written as bounds on lo and hi
\* (slot 2 is the first position at least 1e-9 above a whole degree)
InCellEps(c, lo, hi) ==
    /\ Deg(c) <= lo /\ lo < Deg(c + 1)
    /\ Deg(c) + 2 <= hi /\ hi < Deg(c + 1) + 2

PlanCells == (-(PlanDeg + 1)) .. (PlanDeg + 1)

PlanBox == total_bounds(boundary)

\* C5: for a bounding box within one 1-degree cell (its north or east edge
\* may lie exactly on the cell's edge) the corner plan is exactly the code of
\* that cell's south-west corner.
C5_SingleCellOneTile ==
    pc = "plan_out" =>
       \A la, lo \in PlanCells :
          (InCellEps(la, MinY(PlanBox), MaxY(PlanBox)) /\ InCellEps(lo, MinX(PlanBox), MaxX(PlanBox)))
             => codes = <<tile_code(la, lo)>>

C5_Witness ==
    /\ pc = "plan_out"
    /\ \E la, lo \in PlanCells :
          /\ InCellEps(la, MinY(PlanBox), MaxY(PlanBox))
          /\ InCellEps(lo, MinX(PlanBox), MaxX(PlanBox))
          /\ MaxY(PlanBox) = Deg(la + 1)
          /\ MaxX(PlanBox) = Deg(lo + 1)
          /\ codes = <<tile_code(la, lo)>>

\* a whole-degree line lies strictly inside [lo, hi]
Straddles(lo, hi) == \E k \in PlanCells : lo < Deg(k) /\ Deg(k) < hi

\* the cell row (or column) c and [lo, hi] share more than an edge
Overlaps(c, lo, hi) == Deg(c) < hi /\ lo < Deg(c + 1)

\* C6: for a bounding box that straddles a whole-degree latitude line and a
\* whole-degree longitude line, the corner plan has at most four codes, no
\* code twice, and each is the south-west code of a cell the box overlaps.
C6_StraddleAtMostFour ==
    (/\ pc = "plan_out"
     /\ Straddles(MinY(PlanBox), MaxY(PlanBox))
     /\ Straddles(MinX(PlanBox), MaxX(PlanBox)))
       => /\ Len(codes) <= 4
          /\ \A i, j \in 1..Len(codes) : i # j => codes[i] # codes[j]
          /\ \A i \in 1..Len(codes) :
                \E la, lo \in PlanCells :
                   /\ codes[i] = tile_code(la, lo)
                   /\ ParseTileName(codes[i]) = <<la, lo>>
                   /\ Overlaps(la, MinY(PlanBox), MaxY(PlanBox))
                   /\ Overlaps(lo, MinX(PlanBox), MaxX(PlanBox))

C6_Witness ==
    /\ pc = "plan_out"
    /\ Straddles(MinY(PlanBox), MaxY(PlanBox))
    /\ Straddles(MinX(PlanBox), MaxX(PlanBox))
    /\ Len(codes) = 4

\* corners whose codes could collide with the code of c: the mirror images
\* in the other hemispheres and the neighbours of each
Confusable(c) ==
    {<<la, lo>> : la \in {c[1], -c[1], c[1] + 1, c[1] - 1, -c[1] - 1, -c[1] + 1},
                  lo \in {c[2], -c[2], c[2] + 1, c[2] - 1, -c[2] - 1, -c[2] + 1}}

\* C7: the code of a south-west corner has 7 characters, the name parser
\* gives the corner back, and no confusable corner has the same code.
C7_CodeRoundTrip ==
    /\ pc \in {"code_out", "code_done"} =>
          /\ Len(tcode) = 7
          /\ \A other \in Confusable(corner) :
                tile_code(other[1], other[2]) = tcode => other = corner
    /\ pc = "code_done" => decoded = corner

C7_Witness ==
    /\ pc = "code_done"
    /\ corner = <<-35, -72>>
    /\ tcode = <<"S", "3", "5", "W", "0", "7", "2">>
    /\ decoded = <<-35, -72>>

\* C8: the mirrors of a tile are requested in list order, one after the
\* other, each only while no earlier mirror has yielded a file; after a
\* mirror yielded a file no further mirror is requested for the tile.
C8_MirrorOrder ==
    /\ \A i \in 1..Len(reqs) :
          /\ reqs[i].mirror = i
          /\ i < Len(reqs) => ~reqs[i].yielded
    /\ pc = "tile_req" =>
          /\ mi = Len(reqs) + 1
          /\ mi <= Len(Mirrors)
          /\ \A i \in 1..Len(reqs) : ~reqs[i].yielded

C8_Witness ==
    /\ Len(reqs) = 4
    /\ reqs[4].yielded
    /\ \A i \in 1..3 : ~reqs[i].yielded
    /\ reqs[3].status = 200

\* C9: in the corner pass and in the exhaustive pass a status-200 response
\* that holds a grid (raw, gzip, or zip with an .hgt member) yields the tile
\* file from that mirror.
C9_EveryFormatMaterialized ==
    \A i \in 1..Len(reqs) :
       (reqs[i].status = 200 /\ reqs[i].kind = "grid") => reqs[i].yielded

\* C10: a tile file that the run wrote is in the tile set whatever its size
\* (corner pass, exhaustive pass and forced retry).
C10_SizeNeverRejects ==
    \A c \in DOMAIN hgt_disk :
       c \notin DOMAIN prior_disk => c \in Range(hgt_files)

PlannedCodes == Range(CornerCodes(total_bounds(boundary)))

EnumeratedCodes == Range(FullCodes(total_bounds(boundary)))

GridCells == (-3) .. 2

\* C12: the exhaustive mode is entered exactly when the corner pass ended
\* with no tile, and it enumerates the code of every cell the bounding box
\* overlaps and of no other cell.
C12_ExhaustiveCoversExactly ==
    /\ (tier = "corner" /\ pc \in {"mosaic", "done"}) => hgt_files # <<>>
    /\ (tier = "exhaustive" /\ pc = "tile_begin" /\ ci = 1) => hgt_files = <<>>
    /\ tier = "exhaustive" =>
          \A la, lo \in GridCells :
             tile_code(la, lo) \in Range(codes)
                <=> (/\ Overlaps(la, MinY(total_bounds(boundary)), MaxY(total_bounds(boundary)))
                     /\ Overlaps(lo, MinX(total_bounds(boundary)), MaxX(total_bounds(boundary))))

\* C13: the catalog is searched only from the forced retry, the forced retry
\* is entered only from the exhaustive pass and the exhaustive pass only
\* from the corner pass, each at the end of a pass that left the tile set
\* empty; with a tile in the tile set the catalog is not searched.
C13_CatalogLast ==
    [][ /\ (catalog_asked' /\ ~catalog_asked) =>
              (pc = "copernicus" /\ tier = "forced" /\ hgt_files = <<>>)
        /\ (pc' = "copernicus" /\ pc # "copernicus") =>
              (pc = "forced" /\ tier = "forced" /\ hgt_files = <<>> /\ hgt_files' = <<>>)
        /\ (tier' = "forced" /\ tier # "forced") =>
              (tier = "exhaustive" /\ ci > Len(codes) /\ hgt_files = <<>>)
        /\ (tier' = "exhaustive" /\ tier # "exhaustive") =>
              (tier = "corner" /\ ci > Len(codes) /\ hgt_files = <<>>)
        /\ hgt_files' # <<>> => ~catalog_asked' ]_vars

C13_Witness ==
    /\ catalog_asked
    /\ tier = "forced"
    /\ hgt_files = <<>>
    /\ pc = "done"

\* C14: when the catalog was searched and returned no items,
\* download_srtm_tiles has returned False and the run has written no raster
\* and no tile file.
C14_TotalFailureWritesNothing ==
    (pc = "done" /\ steps = CopernicusSteps("no_items")) =>
       /\ srtm_ret = "False"
       /\ DOMAIN outputs = {}
       /\ DOMAIN hgt_disk = DOMAIN prior_disk

\* C15: the merge and the temporary mosaic happen only with two or more
\* tiles; a single tile is opened, masked and written, nothing else.
C15_SingleTilePassThrough ==
    /\ (\E i \in 1..Len(steps) : steps[i] \in {"merge", "tmp"}) => Len(hgt_files) >= 2
    /\ MosaicTmp \in tmp_disk => Len(hgt_files) >= 2
    /\ (pc = "done" /\ Len(hgt_files) = 1) =>
          \E out \in MosaicOutcomes : steps = SingleSteps(out)

C15_Witness ==
    /\ pc = "done"
    /\ Len(hgt_files) = 1
    /\ steps = <<"open", "mask", "write">>
    /\ "srtm_dem.tif" \in DOMAIN outputs
    /\ MosaicTmp \notin tmp_disk

\* C20: every request carries a timeout, so the run of main ends whatever
\* the endpoints do.
C20_RunTerminates == <>(pc = "done")

\* C16: in generate_dem_derivatives no reprojection and no slope/aspect
\* computation follows a failed clip.
C16_ClipFailurePropagates ==
    \A i, j \in 1..Len(steps) :
       (i < j /\ steps[i] = "clip_failed") => steps[j] \notin {"reproject_ok", "slope"}

\* C17: after clip_dem_to_boundary(dem_path, boundary_path, out_path), with
\* an out_path other than dem_path, the file at dem_path holds what it held
\* before, and after a successful clip the clipped raster is at out_path.
C17_ClipLeavesInput ==
    (call.fn = "clip_dem_to_boundary" /\ pc = "call_done" /\ call.out_path # call.dem_path) =>
       /\ call.dem_path \in DOMAIN before =>
             (call.dem_path \in DOMAIN rfiles /\ rfiles[call.dem_path] = before[call.dem_path])
       /\ steps = <<"clip_ok">> =>
             /\ call.out_path \in DOMAIN rfiles
             /\ rfiles[call.out_path].extent = "clipped"
             /\ rfiles[call.out_path].bands = before[call.dem_path].bands

\* the sibling of the source of the call: same directory, <stem>_<epsg>.tif
IsSiblingOfSource(p) ==
    /\ p.dir = call.dem_path.dir
    /\ p.stem = call.dem_path.stem \o "_" \o call.epsg
    /\ p.suffix = ".tif"

\* C18: _reproject_dem changes no file but the sibling <stem>_<epsg>.tif of
\* its source, on success and on failure, the source included; after a
\* success the sibling is a whole raster in the target CRS with the bands of
\* the source.
C18_SiblingOnly ==
    call.fn = "_reproject_dem" =>
       /\ \A p \in DOMAIN before : p \in DOMAIN rfiles
       /\ \A p \in DOMAIN rfiles :
             ~IsSiblingOfSource(p) => (p \in DOMAIN before /\ rfiles[p] = before[p])
       /\ (steps # <<>> /\ steps[Len(steps)] = "reproject_ok") =>
             \E p \in DOMAIN rfiles :
                /\ IsSiblingOfSource(p)
                /\ p # call.dem_path
                /\ rfiles[p].whole
                /\ rfiles[p].crs = "EPSG:" \o call.epsg
                /\ Len(rfiles[p].bands) = Len(before[call.dem_path].bands)
                /\ \A i \in 1..Len(rfiles[p].bands) :
                      rfiles[p].bands[i].data = before[call.dem_path].bands[i].data

C18_Witness ==
    /\ call.fn = "_reproject_dem"
    /\ pc = "rp_call2"
    /\ steps = <<"reproject_ok">>
    /\ call.dem_path = RawDem
    /\ RawDemUtm \notin DOMAIN before
    /\ RawDemUtm \in DOMAIN rfiles
    /\ Len(rfiles[RawDemUtm].bands) = 2

C21_FinalPathAfterClip ==
    /\ pc # "done" => outputs = NoFiles
    /\ (pc = "done" /\ "mask" \notin Range(steps)) => outputs = NoFiles
    /\ \A f \in DOMAIN outputs : "mask" \in Range(steps)

C21_Witness ==
    /\ pc = "done"
    /\ steps = MergeSteps("clip_error")
    /\ MosaicTmp \in tmp_disk
    /\ outputs = NoFiles
    /\ srtm_ret = "False"

\* C28: whenever download_srtm_tiles has returned True, the clipped raster
\* and its reprojected sibling are both in output_dir, completely written.
C28_TrueMeansBothWritten ==
    (pc = "done" /\ srtm_ret = "True") =>
       \E name \in {"srtm_dem.tif", "copernicus_dem.tif"} :
          /\ name \in DOMAIN outputs
          /\ outputs[name] = "complete"
          /\ Sibling(name) \in DOMAIN outputs
          /\ outputs[Sibling(name)] = "complete"

AscendingCodes(s) == \A i, j \in 1..Len(s) : i < j => CodeLess(s[i], s[j])

\* C29: the tile list that reaches the mosaic holds its codes in strictly
\* ascending order (so each code once), all of them planned by the tier the
\* run is in, and a tier never starts with tiles of an earlier tier in the list.
C29_TileListStable ==
    [][/\ tier' # tier => hgt_files' = <<>>
       /\ pc' = "mosaic" =>
             /\ hgt_files' # <<>>
             /\ AscendingCodes(hgt_files')
             /\ Range(hgt_files') \subseteq Range(codes')]_vars

C29_Witness ==
    /\ pc = "mosaic"
    /\ tier = "corner"
    /\ Len(hgt_files) = 2
    /\ \E i \in 1..2 : hgt_files[i] \in DOMAIN prior_disk
    /\ \E i \in 1..2 : hgt_files[i] \notin DOMAIN prior_disk

\* C24: after a successful call of either reprojector the output file has as
\* many bands as the input, and each band is the resampling of the input band
\* of the same index.
C24_EveryBandResampled ==
    (pc = "rp_call2" /\ steps = <<"reproject_ok">>) =>
       LET src == before[call.dem_path]
           out == rfiles[call.out_path]
       IN  /\ Len(out.bands) = Len(src.bands)
           /\ \A i \in 1..Len(src.bands) :
                 /\ out.bands[i].data = src.bands[i].data
                 /\ out.bands[i].warps = Append(src.bands[i].warps, Crs(call.epsg))

\* C23: when the cascade reaches the OSM fallback in a run whose OSM stage
\* did not run, and the geocoding service has the region, the fallback has a
\* non-empty geometry of the region to save.
C23_FallbackGeocodes ==
    (Attempted("osm") /\ place.present /\ "osm" \notin sources) =>
       /\ boundary_gdf.present
       /\ Len(boundary_gdf.rows) > 0

\* C22: in the ranking of the archive's layers every file whose name has
\* the marker stands before every file whose name has not, and of two files
\* that agree on the marker the larger one stands first.
C22_MarkerOutranksSize ==
    \A i, j \in 1..Len(ranked) :
       i < j =>
          /\ HasMarker(ranked[j]) => HasMarker(ranked[i])
          /\ (HasMarker(ranked[i]) = HasMarker(ranked[j])) => ranked[i].size >= ranked[j].size

\* the column the filter reads: the first one whose name has 'comuna' or 'nom_com'
NameColumn(layer) ==
    CHOOSE k \in 1..Len(layer.columns) :
       /\ IsComunaCol(layer.columns[k])
       /\ \A m \in 1..(k - 1) : ~IsComunaCol(layer.columns[m])

HasNameColumn(layer) == \E k \in 1..Len(layer.columns) : IsComunaCol(layer.columns[k])

OfficialFile == "comuna_boundaries_oficial.geojson"

\* C25: when download_boundaries_dpa_zip returns True the file it wrote holds
\* exactly the rows of the top-ranked layer whose name, normalized, equals the
\* normalized comuna name; it returns False without a failed request or an
\* exception exactly when there is no layer, no name column or no such row;
\* and when it returns False it has written no file.
C25_FilterKeepsMatchingRows ==
    pc = "dpa_done" =>
       /\ ok_dpa =>
             /\ ranked # <<>>
             /\ HasNameColumn(ranked[1])
             /\ OfficialFile \in DOMAIN bfiles
             /\ LET top == ranked[1]
                    col == NameColumn(top)
                    kept == {i \in 1..Len(top.rows) :
                                _normalize(top.rows[i][col]) = _normalize(comuna)}
                    file == bfiles[OfficialFile]
                IN  /\ kept # {}
                    /\ Len(file) = Cardinality(kept)
                    /\ \A r \in Range(file) : \E i \in kept : top.rows[i] = r
                    /\ \A i \in kept : top.rows[i] \in Range(file)
       /\ LET nothing_to_keep ==
                  \/ archive = <<>>
                  \/ ranked # <<>> /\ ~HasNameColumn(ranked[1])
                  \/ ranked # <<>> /\ HasNameColumn(ranked[1])
                       /\ \A i \in 1..Len(ranked[1].rows) :
                             _normalize(ranked[1].rows[i][NameColumn(ranked[1])])
                                # _normalize(comuna)
          IN  /\ nothing_to_keep => ~ok_dpa
              /\ (~ok_dpa /\ steps \notin {<<"status">>, <<"exception">>}) => nothing_to_keep
       /\ ~ok_dpa => OfficialFile \notin DOMAIN bfiles

C25_Witness ==
    /\ pc = "dpa_done"
    /\ ok_dpa
    /\ Len(ranked) = 2
    /\ Len(ranked[1].rows) = 3
    /\ Len(bfiles[OfficialFile]) = 2
    /\ \E r \in Range(bfiles[OfficialFile]) : r[NameColumn(ranked[1])] # comuna

\* the interval [lo, hi] reaches beyond the cell row (or column) c on both sides
Inner(c, lo, hi) == lo < Deg(c) /\ Deg(c + 1) < hi

\* codes of the cells the bounding box overlaps that lie between its extreme
\* rows or columns
MiddleCodes ==
    LET b == total_bounds(boundary)
    IN  {tile_code(la, lo) : <<la, lo>> \in
           {c \in GridCells \X GridCells :
               /\ Overlaps(c[1], MinY(b), MaxY(b))
               /\ Overlaps(c[2], MinX(b), MaxX(b))
               /\ Inner(c[1], MinY(b), MaxY(b)) \/ Inner(c[2], MinX(b), MaxX(b))}}

\* C26: for a boundary three cells wide the corner plan has no code of a
\* middle cell; a middle cell is requested only in the exhaustive pass, after
\* every corner code was recorded as missing; a run that took a corner tile
\* reaches the mosaic with the corner tiles only and, when clip and write
\* succeed, returns True.
C26_CornerPlanSkipsMiddle ==
    boundary.present =>
       /\ MiddleCodes # {}
       /\ tier = "corner" => Range(codes) \cap MiddleCodes = {}
       /\ (pc = "tile_req" /\ codes[ci] \in MiddleCodes) =>
             /\ tier = "exhaustive"
             /\ PlannedCodes \subseteq missing
       /\ (tier = "corner" /\ pc \in {"mosaic", "done"}) =>
             /\ hgt_files # <<>>
             /\ Range(hgt_files) \cap MiddleCodes = {}
       /\ (tier = "corner" /\ pc = "done" /\ steps # <<>> /\ steps[Len(steps)] \in {"write", "rm_tmp"})
             => srtm_ret = "True"

C26_Witness ==
    /\ pc = "done"
    /\ tier = "corner"
    /\ srtm_ret = "True"
    /\ Len(hgt_files) = 1
    /\ tile_code(-1, -1) \in MiddleCodes
    /\ tile_code(-1, -1) \in DOMAIN hgt_disk
    /\ tile_code(-1, -1) \notin Range(hgt_files)

\* C27: the stages of one run that asked for the boundary hold the same
\* geometry, and it is the one in self.boundary_gdf when that was assigned.
C27_SameBoundaryEverywhere ==
    (pc = "s2_done" /\ s2_ret # "raised") =>
       /\ srtm_started => s2_boundary = boundary
       /\ boundary_gdf.present => s2_boundary = boundary_gdf

\* C30: every tile a run took from disk without a request (it was in
\* output_dir when the run began) is a tile that an earlier run on that
\* directory accepted into its tile set.
C30_DiskTilesWereAccepted ==
    \A c \in Range(hgt_files) : c \in DOMAIN prior_disk => c \in accepted

====
